---- MODULE Spec2Model ----
(***************************************************************************)
(* Model of project_main.py: the transport-usage analytics script.  One    *)
(* run of the script is a sequence of steps (filter, KPIs, trend grouping,  *)
(* performance ranking, insights, detail table, export); a widget change    *)
(* re-runs the script from the top on the same cached dataset.              *)
(*                                                                          *)
(* Floating-point values are modelled as exact rationals <<n, d>> in        *)
(* lowest terms with d > 0, extended by the IEEE specials that numpy        *)
(* division produces: <<1,0>> = +inf, <<-1,0>> = -inf, <<0,0>> = NaN.       *)
(***************************************************************************)
EXTENDS Integers, Sequences, FiniteSets, TLC

VARIABLES df, countries, years, transport_types, min_satisfaction,
          pc, error, filtered_df,
          total_usage, growth_rate, usage_delta, avg_satisfaction,
          avg_emissions, efficiency_score, countries_count,
          yearly_data, top_performers, best_transport, insights,
          display_df, csv

widgets == <<countries, years, transport_types, min_satisfaction>>
kpis == <<total_usage, growth_rate, usage_delta, avg_satisfaction,
          avg_emissions, efficiency_score, countries_count>>
tables == <<yearly_data, top_performers, best_transport, insights,
            display_df, csv>>
vars == <<df, widgets, pc, error, filtered_df, kpis, tables>>

(* ---------------------------------------------------------------------- *)
(* float64 arithmetic (exact rationals + inf / NaN)                        *)
(* ---------------------------------------------------------------------- *)
Abs(i) == IF i < 0 THEN -i ELSE i
Sgn(i) == IF i > 0 THEN 1 ELSE IF i < 0 THEN -1 ELSE 0

RECURSIVE GCD(_, _)
GCD(a, b) == IF b = 0 THEN a ELSE GCD(b, a % b)

Norm(n, d) ==
    IF d = 0 THEN <<Sgn(n), 0>>
    ELSE LET g == GCD(Abs(n), Abs(d))
             s == Sgn(d)
         IN  <<s * (n \div g), s * (d \div g)>>

NaN == <<0, 0>>
Inf == <<1, 0>>
I(i) == <<i, 1>>
Dec(n, d) == Norm(n, d)

IsNaN(x) == x = NaN
IsInf(x) == x[2] = 0 /\ x[1] # 0
IsFinite(x) == x[2] # 0

Neg(x) == <<-x[1], x[2]>>
\* the factors are cancelled crosswise first, which keeps the products small
Mul(x, y) ==
    IF IsNaN(x) \/ IsNaN(y) THEN NaN
    ELSE IF x[2] = 0 \/ y[2] = 0 THEN Norm(Sgn(x[1]) * Sgn(y[1]), 0)
    ELSE LET g == GCD(Abs(x[1]), y[2])
             h == GCD(Abs(y[1]), x[2])
         IN  Norm((x[1] \div g) * (y[1] \div h), (x[2] \div h) * (y[2] \div g))
Recip(x) == Norm(x[2], x[1])
Div(x, y) == Mul(x, Recip(y))
Add(x, y) ==
    IF IsNaN(x) \/ IsNaN(y) THEN NaN
    ELSE IF IsInf(x) /\ IsInf(y) THEN (IF x = y THEN x ELSE NaN)
    ELSE Norm(x[1] * y[2] + y[1] * x[2], x[2] * y[2])
Sub(x, y) == Add(x, Neg(y))

LT(x, y) ==
    /\ ~IsNaN(x)
    /\ ~IsNaN(y)
    /\ IF IsFinite(x) /\ IsFinite(y) THEN x[1] * y[2] < y[1] * x[2]
       ELSE IF IsInf(x) /\ IsInf(y) THEN x[1] < y[1]
       ELSE IF IsInf(x) THEN x[1] < 0
       ELSE y[1] > 0
GT(x, y) == LT(y, x)
GE(x, y) == ~IsNaN(x) /\ ~IsNaN(y) /\ ~LT(x, y)
NE(x, y) == IsNaN(x) \/ IsNaN(y) \/ x # y

\* round-half-to-even of n/d (d > 0) to an integer, as rint does
RInt(n, d) ==
    LET f == n \div d
        r == n % d
    IN  IF 2 * r < d THEN f
        ELSE IF 2 * r > d THEN f + 1
        ELSE IF f % 2 = 0 THEN f ELSE f + 1

\* round to 10^-k given as scale = 10^k; inf and NaN pass through
RoundTo(x, scale) ==
    IF IsFinite(x) THEN Norm(RInt(x[1] * scale, x[2]), scale) ELSE x

(* ---------------------------------------------------------------------- *)
(* The dataset                                                             *)
(* ---------------------------------------------------------------------- *)
MaxRows == 3

None == <<>>

Rec(c, y, t, u, s, e, ur) ==
    [Country |-> c, Year |-> y, Transport_Type |-> t, Annual_Usage |-> I(u),
     Customer_Satisfaction_Score |-> s, CO2_Emissions_kg_per_passenger |-> e,
     Urbanization_Rate |-> ur]

\* Candidate CSV records.  The first three are the records of the worked
\* example; the others bring a zero emission / zero urbanization record, a
\* record whose performance score ties with the first and whose
\* urbanization rate has three decimals, and a record with
\* zero usage and emissions above 100.
Pool ==
    { Rec("A", 2020, "Bus",  100, Dec(45, 10),     Dec(10, 10),   I(50)),
      Rec("A", 2021, "Bus",  150, Dec(46, 10),     Dec(11, 10),   I(52)),
      Rec("B", 2020, "Rail", 200, Dec(30, 10),     Dec(30, 10),   I(60)),
      Rec("B", 2021, "Bus",  120, Dec(25, 10),     I(0),          I(0)),
      Rec("A", 2021, "Rail",  80, Dec(46, 10),     Dec(50, 10),   Dec(40126, 1000)),
      Rec("B", 2021, "Rail",   0, Dec(15, 10),     I(120),        I(70)) }

Datasets == UNION { [1..n -> Pool] : n \in 1..MaxRows }

\* pd.read_csv: the records in file order under a RangeIndex
load_data(d) ==
    [i \in 1..Len(d) |-> [index |-> i - 1] @@ d[i]]

(* ---------------------------------------------------------------------- *)
(* Series / DataFrame helpers                                              *)
(* ---------------------------------------------------------------------- *)
Range(s) == { s[i] : i \in 1..Len(s) }
Col(frame, c) == [i \in 1..Len(frame) |-> frame[i][c]]

RECURSIVE Sum(_)
Sum(s) == IF s = <<>> THEN I(0) ELSE Add(Head(s), Sum(Tail(s)))

\* Series.mean(): NaN on an empty series
Mean(s) == Div(Sum(s), I(Len(s)))

RECURSIVE Unique(_)
Unique(s) ==
    IF s = <<>> THEN <<>>
    ELSE LET u == Unique(SubSeq(s, 1, Len(s) - 1))
             x == s[Len(s)]
         IN  IF x \in Range(u) THEN u ELSE Append(u, x)

MinInt(S) == CHOOSE x \in S : \A y \in S : x <= y
MaxInt(S) == CHOOSE x \in S : \A y \in S : x >= y
MinNum(S) == CHOOSE x \in S : \A y \in S : ~LT(y, x)

(* ---------------------------------------------------------------------- *)
(* Sidebar widgets (lines 22-45)                                           *)
(* ---------------------------------------------------------------------- *)
MaxDefaultCountries == 5

CountryOptions == Range(Unique(Col(df, "Country")))
DefaultCountries ==
    LET u == Unique(Col(df, "Country"))
    IN  IF Len(u) > MaxDefaultCountries
        THEN { u[i] : i \in 1..MaxDefaultCountries }
        ELSE Range(u)
TransportOptions == Range(Unique(Col(df, "Transport_Type")))
YearMin == MinInt(Range(Col(df, "Year")))
YearMax == MaxInt(Range(Col(df, "Year")))
YearRanges == { <<lo, hi>> \in (YearMin..YearMax) \X (YearMin..YearMax) : lo <= hi }
\* the slider runs from the smallest to the largest score of the dataset;
\* the scores that occur are the positions at which the filter changes
SatisfactionPositions == Range(Col(df, "Customer_Satisfaction_Score"))

(* ---------------------------------------------------------------------- *)
(* Filter (lines 47-57)                                                    *)
(* ---------------------------------------------------------------------- *)
\* variant: the last year of the range is left out
BetweenExclusiveEnd(v, lo, hi) == lo <= v /\ v < hi
Between(v, lo, hi) == lo <= v /\ v <= hi
Isin(v, S) == v \in S

KeepRow(r) ==
    /\ Isin(r.Country, countries)
    /\ Between(r.Year, years[1], years[2])
    /\ Isin(r.Transport_Type, transport_types)
    /\ GE(r.Customer_Satisfaction_Score, min_satisfaction)

FilterRows(frame) == SelectSeq(frame, KeepRow)

\* variant: the emptiness check never fires
NeverEmpty(frame) == FALSE
Empty(frame) == Len(frame) = 0

(* ---------------------------------------------------------------------- *)
(* KPIs (lines 59-89)                                                      *)
(* ---------------------------------------------------------------------- *)
YearRows(frame, y) == SelectSeq(frame, LAMBDA r : r.Year = y)
\* variant: the usage of a year is taken from one country, that of the
\* year's first row, instead of from all rows of the year
UsageOfYearOneCountry(frame, y) ==
    LET rows == YearRows(frame, y)
    IN  IF rows = <<>> THEN I(0)
        ELSE Sum(Col(SelectSeq(rows, LAMBDA r : r.Country = rows[1].Country),
                     "Annual_Usage"))
UsageOfYear(frame, y) == Sum(Col(YearRows(frame, y), "Annual_Usage"))

GrowthRate(frame) ==
    IF years[2] # years[1]
    THEN Mul(Div(Sub(UsageOfYear(frame, years[2]), UsageOfYear(frame, years[1])),
                 UsageOfYear(frame, years[1])),
             I(100))
    ELSE I(0)

\* f"{x:.1f}": the value to one decimal; "inf" and "nan" are printed as such
Fmt1(x) == RoundTo(x, 10)

UsageDelta(g) == IF NE(g, I(0)) THEN Fmt1(g) ELSE None

EfficiencyScore(sat, usage, em) ==
    Div(Div(Mul(sat, usage), I(1000000)), em)

(* ---------------------------------------------------------------------- *)
(* groupby (lines 146, 183, 253): one group per key combination present,   *)
(* in sorted key order                                                     *)
(* ---------------------------------------------------------------------- *)
StrOrd(v) ==
    CASE v = "A" -> 1 [] v = "B" -> 2 [] v = "Bus" -> 3 [] v = "Rail" -> 4

Ord(c, v) == IF c = "Year" THEN v ELSE StrOrd(v)

KeyOf(r, c1, c2) == <<r[c1], r[c2]>>

KeyLT(a, b, c1, c2) ==
    \/ Ord(c1, a[1]) < Ord(c1, b[1])
    \/ a[1] = b[1] /\ Ord(c2, a[2]) < Ord(c2, b[2])

RECURSIVE SortKeys(_, _, _)
SortKeys(S, c1, c2) ==
    IF S = {} THEN <<>>
    ELSE LET m == CHOOSE a \in S : \A b \in S \ {a} : KeyLT(a, b, c1, c2)
         IN  <<m>> \o SortKeys(S \ {m}, c1, c2)

GroupKeys(frame, c1, c2) ==
    SortKeys({ KeyOf(frame[i], c1, c2) : i \in 1..Len(frame) }, c1, c2)

\* variant: the rows of a group are matched on the first key only
GroupRowsByFirstKey(frame, c1, c2, k) ==
    SelectSeq(frame, LAMBDA r : r[c1] = k[1])
GroupRows(frame, c1, c2, k) ==
    SelectSeq(frame, LAMBDA r : KeyOf(r, c1, c2) = k)

\* line 146
YearlyData(frame) ==
    LET ks == GroupKeys(frame, "Year", "Transport_Type")
    IN  [g \in 1..Len(ks) |->
           [Year |-> ks[g][1], Transport_Type |-> ks[g][2],
            Annual_Usage |->
              Sum(Col(GroupRows(frame, "Year", "Transport_Type", ks[g]),
                      "Annual_Usage"))]]

(* ---------------------------------------------------------------------- *)
(* Performance benchmarking (lines 176-188)                                *)
(* ---------------------------------------------------------------------- *)
\* variant: the environmental term is clamped at 0
PerformanceScoreClamped(r) ==
    Add(Mul(r.Customer_Satisfaction_Score, I(20)),
        IF GT(r.CO2_Emissions_kg_per_passenger, I(100)) THEN I(0)
        ELSE Mul(Sub(I(100), r.CO2_Emissions_kg_per_passenger), Dec(5, 10)))
PerformanceScore(r) ==
    Add(Mul(r.Customer_Satisfaction_Score, I(20)),
        Mul(Sub(I(100), r.CO2_Emissions_kg_per_passenger), Dec(5, 10)))

WithPerformanceScore(frame) ==
    [i \in 1..Len(frame) |->
       [Performance_Score |-> PerformanceScore(frame[i])] @@ frame[i]]

PerformanceAgg(frame) ==
    LET ks == GroupKeys(frame, "Country", "Transport_Type")
    IN  [g \in 1..Len(ks) |->
           LET rows == GroupRows(frame, "Country", "Transport_Type", ks[g])
           IN  [Country |-> ks[g][1], Transport_Type |-> ks[g][2],
                Performance_Score |-> Mean(Col(rows, "Performance_Score")),
                Annual_Usage |-> Sum(Col(rows, "Annual_Usage")),
                Customer_Satisfaction_Score |->
                    Mean(Col(rows, "Customer_Satisfaction_Score")),
                CO2_Emissions_kg_per_passenger |->
                    Mean(Col(rows, "CO2_Emissions_kg_per_passenger"))]]

Orderings(frame) ==
    { p \in [1..Len(frame) -> 1..Len(frame)] :
        \A i, j \in 1..Len(frame) : i # j => p[i] # p[j] }

\* sort_values('Performance_Score', ascending=False) with the default
\* kind='quicksort': the result is ordered by score, and the order of rows
\* with equal scores is whatever the sort of the numpy build leaves
Descending(frame, p) ==
    \A i \in 1..Len(frame) - 1 :
        GE(frame[p[i]].Performance_Score, frame[p[i + 1]].Performance_Score)

SortValues(frame) ==
    { [i \in 1..Len(frame) |-> frame[p[i]]] :
        p \in { q \in Orderings(frame) : Descending(frame, q) } }

(* ---------------------------------------------------------------------- *)
(* Insights (lines 220-243)                                                *)
(* ---------------------------------------------------------------------- *)
GrowthInsights(g) ==
    IF GT(g, I(10)) THEN <<[kind |-> "strong-growth", text |-> Fmt1(g)]>>
    ELSE IF LT(g, I(-5)) THEN <<[kind |-> "declining-usage", text |-> Fmt1(g)]>>
    ELSE <<>>

\* variant: the thresholds are inclusive
SatisfactionInsightsInclusive(s) ==
    IF GE(s, I(4)) THEN <<[kind |-> "high-satisfaction"]>>
    ELSE IF GE(I(3), s) THEN <<[kind |-> "low-satisfaction"]>>
    ELSE <<>>
SatisfactionInsights(s) ==
    IF GT(s, I(4)) THEN <<[kind |-> "high-satisfaction"]>>
    ELSE IF LT(s, I(3)) THEN <<[kind |-> "low-satisfaction"]>>
    ELSE <<>>

EmissionInsights(e) ==
    IF LT(e, I(2)) THEN <<[kind |-> "eco-friendly"]>>
    ELSE IF GT(e, I(5)) THEN <<[kind |-> "high-emissions"]>>
    ELSE <<>>

BestTransport(ranking) ==
    IF ranking # <<>> THEN ranking[1].Transport_Type ELSE "N/A"

TopPerformerInsight(best) == <<[kind |-> "top-performer", text |-> best]>>

(* ---------------------------------------------------------------------- *)
(* Detail table and export (lines 252-270)                                 *)
(* ---------------------------------------------------------------------- *)
Round2(x) == RoundTo(x, 100)

\* groupby(...).agg(...).round(2), columns renamed
DetailAgg(frame) ==
    LET ks == GroupKeys(frame, "Country", "Transport_Type")
    IN  [g \in 1..Len(ks) |->
           LET rows == GroupRows(frame, "Country", "Transport_Type", ks[g])
           IN  [Country |-> ks[g][1], Transport_Type |-> ks[g][2],
                Total_Usage |-> Round2(Sum(Col(rows, "Annual_Usage"))),
                Avg_Annual_Usage |-> Round2(Mean(Col(rows, "Annual_Usage"))),
                Avg_Satisfaction |->
                    Round2(Mean(Col(rows, "Customer_Satisfaction_Score"))),
                Avg_CO2_Emissions |->
                    Round2(Mean(Col(rows, "CO2_Emissions_kg_per_passenger"))),
                Avg_Urbanization |->
                    Round2(Mean(Col(rows, "Urbanization_Rate")))]]

\* lines 264-265
WithRatios(g) ==
    [Usage_per_Urban |-> Div(g.Total_Usage, g.Avg_Urbanization),
     Satisfaction_Efficiency |-> Div(g.Avg_Satisfaction, g.Avg_CO2_Emissions)]
    @@ g

DisplayDf(frame) ==
    LET agg == DetailAgg(frame)
    IN  [g \in 1..Len(agg) |-> WithRatios(agg[g])]

\* to_csv writes a float by its shortest round-tripping text, "inf" for an
\* infinity and the empty field (na_rep='') for NaN
CsvField(x) == IF IsNaN(x) THEN <<>> ELSE x

ToCsv(table) ==
    [g \in 1..Len(table) |->
       [Country |-> table[g].Country,
        Transport_Type |-> table[g].Transport_Type,
        Total_Usage |-> CsvField(table[g].Total_Usage),
        Avg_Annual_Usage |-> CsvField(table[g].Avg_Annual_Usage),
        Avg_Satisfaction |-> CsvField(table[g].Avg_Satisfaction),
        Avg_CO2_Emissions |-> CsvField(table[g].Avg_CO2_Emissions),
        Avg_Urbanization |-> CsvField(table[g].Avg_Urbanization),
        Usage_per_Urban |-> CsvField(table[g].Usage_per_Urban),
        Satisfaction_Efficiency |-> CsvField(table[g].Satisfaction_Efficiency)]]

(* ---------------------------------------------------------------------- *)
(* The script                                                              *)
(* ---------------------------------------------------------------------- *)
\* the script's variables at the top of a (re-)run: nothing computed yet
StartRun ==
    /\ pc' = "filter"
    /\ error' = FALSE
    /\ filtered_df' = None
    /\ total_usage' = None /\ growth_rate' = None /\ usage_delta' = None
    /\ avg_satisfaction' = None /\ avg_emissions' = None
    /\ efficiency_score' = None /\ countries_count' = 0
    /\ yearly_data' = None /\ top_performers' = None /\ best_transport' = ""
    /\ insights' = None /\ display_df' = None /\ csv' = None

\* first run: the dataset is loaded and the widgets hold their defaults
Init ==
    /\ df \in { load_data(d) : d \in Datasets }
    /\ countries = DefaultCountries
    /\ years = <<YearMin, YearMax>>
    /\ transport_types = TransportOptions
    /\ min_satisfaction = MinNum(SatisfactionPositions)
    /\ pc = "filter"
    /\ error = FALSE
    /\ filtered_df = None
    /\ total_usage = None /\ growth_rate = None /\ usage_delta = None
    /\ avg_satisfaction = None /\ avg_emissions = None
    /\ efficiency_score = None /\ countries_count = 0
    /\ yearly_data = None /\ top_performers = None /\ best_transport = ""
    /\ insights = None /\ display_df = None /\ csv = None

\* lines 47-57
FilterData ==
    /\ pc = "filter"
    /\ filtered_df' = FilterRows(df)
    /\ IF Empty(filtered_df')
       THEN error' = TRUE /\ pc' = "stopped"
       ELSE error' = FALSE /\ pc' = "kpis"
    /\ UNCHANGED <<df, widgets, kpis, tables>>

\* lines 59-89
CalculateKPIs ==
    /\ pc = "kpis"
    /\ total_usage' = Sum(Col(filtered_df, "Annual_Usage"))
    /\ growth_rate' = GrowthRate(filtered_df)
    /\ usage_delta' = UsageDelta(growth_rate')
    /\ avg_satisfaction' = Mean(Col(filtered_df, "Customer_Satisfaction_Score"))
    /\ avg_emissions' = Mean(Col(filtered_df, "CO2_Emissions_kg_per_passenger"))
    /\ efficiency_score' =
          EfficiencyScore(avg_satisfaction', total_usage', avg_emissions')
    /\ countries_count' = Len(Unique(Col(filtered_df, "Country")))
    /\ pc' = "trend"
    /\ UNCHANGED <<df, widgets, error, filtered_df, tables>>

\* line 146
TrendData ==
    /\ pc = "trend"
    /\ yearly_data' = YearlyData(filtered_df)
    /\ pc' = "benchmark"
    /\ UNCHANGED <<df, widgets, error, filtered_df, kpis, top_performers,
                   best_transport, insights, display_df, csv>>

\* lines 176-188
PerformanceBenchmark ==
    /\ pc = "benchmark"
    /\ top_performers' \in SortValues(PerformanceAgg(WithPerformanceScore(filtered_df)))
    /\ pc' = "insights"
    /\ UNCHANGED <<df, widgets, error, filtered_df, kpis, yearly_data,
                   best_transport, insights, display_df, csv>>

\* lines 220-243
GenerateInsights ==
    /\ pc = "insights"
    /\ best_transport' = BestTransport(top_performers)
    /\ insights' = GrowthInsights(growth_rate)
                     \o SatisfactionInsights(avg_satisfaction)
                     \o EmissionInsights(avg_emissions)
                     \o TopPerformerInsight(best_transport')
    /\ pc' = "table"
    /\ UNCHANGED <<df, widgets, error, filtered_df, kpis, yearly_data,
                   top_performers, display_df, csv>>

\* lines 252-265
DetailTable ==
    /\ pc = "table"
    /\ display_df' = DisplayDf(filtered_df)
    /\ pc' = "export"
    /\ UNCHANGED <<df, widgets, error, filtered_df, kpis, yearly_data,
                   top_performers, best_transport, insights, csv>>

\* line 270
Export ==
    /\ pc = "export"
    /\ csv' = ToCsv(display_df)
    /\ pc' = "done"
    /\ UNCHANGED <<df, widgets, error, filtered_df, kpis, yearly_data,
                   top_performers, best_transport, insights, display_df>>

\* a change of one widget re-runs the script from the top; the dataset is
\* cached (lines 8-13) and stays as loaded
Rerun ==
    /\ pc \in {"stopped", "done"}
    /\ \/ countries' \in SUBSET CountryOptions
          /\ UNCHANGED <<years, transport_types, min_satisfaction>>
       \/ years' \in YearRanges
          /\ UNCHANGED <<countries, transport_types, min_satisfaction>>
       \/ transport_types' \in SUBSET TransportOptions
          /\ UNCHANGED <<countries, years, min_satisfaction>>
       \/ min_satisfaction' \in SatisfactionPositions
          /\ UNCHANGED <<countries, years, transport_types>>
    /\ StartRun
    /\ UNCHANGED df

Next ==
    \/ FilterData
    \/ CalculateKPIs
    \/ TrendData
    \/ PerformanceBenchmark
    \/ GenerateInsights
    \/ DetailTable
    \/ Export
    \/ Rerun

Spec == Init /\ [][Next]_vars

(* ---------------------------------------------------------------------- *)
(* Properties                                                              *)
(* ---------------------------------------------------------------------- *)
Filtered == pc # "filter"
KpisDone == pc \in {"trend", "benchmark", "insights", "table", "export", "done"}
TrendDone == pc \in {"benchmark", "insights", "table", "export", "done"}
RankingDone == pc \in {"insights", "table", "export", "done"}
InsightsDone == pc \in {"table", "export", "done"}
TableDone == pc \in {"export", "done"}

\* sum of a column over the rows of a frame at the positions S
RECURSIVE SumAt(_, _, _)
SumAt(frame, S, c) ==
    IF S = {} THEN I(0)
    ELSE LET i == CHOOSE j \in S : TRUE
         IN  Add(frame[i][c], SumAt(frame, S \ {i}, c))

Positions(frame) == 1..Len(frame)
AtYear(y) == { i \in Positions(filtered_df) : filtered_df[i].Year = y }
U_start == SumAt(filtered_df, AtYear(years[1]), "Annual_Usage")
U_end == SumAt(filtered_df, AtYear(years[2]), "Annual_Usage")

\* a >= b for two finite values
AtLeast(a, b) == a[1] * b[2] >= b[1] * a[2]

Satisfies(r) ==
    /\ r.Country \in countries
    /\ years[1] <= r.Year /\ r.Year <= years[2]
    /\ r.Transport_Type \in transport_types
    /\ AtLeast(r.Customer_Satisfaction_Score, min_satisfaction)

\* C1: a record of the dataset is in the filtered dataset iff it meets the
\* four filter predicates; the filtered dataset holds records of the dataset
\* only, each at most once, in dataset order.
C1_FilterExact ==
    Filtered =>
        /\ \A i \in Positions(df) :
              Satisfies(df[i])
                <=> (\E j \in Positions(filtered_df) : filtered_df[j].index = df[i].index)
        /\ \A j \in Positions(filtered_df) :
              filtered_df[j] = df[filtered_df[j].index + 1]
        /\ \A j, k \in Positions(filtered_df) :
              j < k => filtered_df[j].index < filtered_df[k].index

\* the filter has kept some records and dropped others
C1_Witness ==
    /\ pc = "kpis"
    /\ Len(filtered_df) >= 2
    /\ Len(filtered_df) < Len(df)
    /\ \E i \in Positions(df) : df[i].Country \notin countries
    /\ min_satisfaction # MinNum(SatisfactionPositions)

NothingComputed ==
    /\ total_usage = None /\ growth_rate = None /\ usage_delta = None
    /\ avg_satisfaction = None /\ avg_emissions = None
    /\ efficiency_score = None /\ countries_count = 0
    /\ yearly_data = None /\ top_performers = None /\ best_transport = ""
    /\ insights = None /\ display_df = None /\ csv = None

\* C2: a run whose filtered dataset has no rows (as it has when no country
\* or no transport type is selected) ends in the "no matching data" state
\* with no downstream step executed; every downstream step runs on a
\* filtered dataset with at least one row.
C2_EmptyStops ==
    /\ (Filtered /\ Len(filtered_df) = 0) => (pc = "stopped" /\ error /\ NothingComputed)
    /\ (Filtered /\ (countries = {} \/ transport_types = {})) => pc = "stopped"
    /\ pc = "stopped" => (Len(filtered_df) = 0 /\ NothingComputed)
    /\ (Filtered /\ pc # "stopped") => (Len(filtered_df) >= 1 /\ ~error)
    /\ ~NothingComputed => Len(filtered_df) >= 1

\* C2 (run part): once stopped, the run takes no further step; only a
\* re-run follows
C2_StoppedIsFinal == [][pc = "stopped" => pc' = "filter"]_vars

C2_Witness ==
    /\ pc = "stopped"
    /\ error
    /\ transport_types = {}
    /\ countries # {}

Example ==
    << Rec("A", 2020, "Bus", 100, Dec(45, 10), Dec(10, 10), I(50)),
       Rec("A", 2021, "Bus", 150, Dec(46, 10), Dec(11, 10), I(52)),
       Rec("B", 2020, "Rail", 200, Dec(30, 10), Dec(30, 10), I(60)) >>

ExampleRun ==
    /\ df = load_data(Example)
    /\ countries = {"A", "B"}
    /\ years = <<2020, 2021>>
    /\ transport_types = {"Bus", "Rail"}
    /\ min_satisfaction = I(3)

\* C3: the growth rate is 0 when the two ends of the year range are equal;
\* otherwise, with U_start # 0, it is (U_end - U_start) / U_start * 100 for
\* the usage sums over all filtered rows of the first and of the last year.
\* The three-record example gives U_start = 300, U_end = 150, growth -50.
C3_GrowthRate ==
    KpisDone =>
        /\ years[1] = years[2] => growth_rate = I(0)
        /\ (years[1] # years[2] /\ U_start # I(0)) =>
              /\ IsFinite(growth_rate)
              /\ growth_rate[1] * U_start[1]
                   = (U_end[1] - U_start[1]) * 100 * growth_rate[2]
        /\ ExampleRun =>
              /\ U_start = I(300)
              /\ U_end = I(150)
              /\ growth_rate = I(-50)
              /\ total_usage = I(450)

\* the example's run, past the KPI step, with rows of two countries at the
\* first year
C3_Witness ==
    /\ KpisDone
    /\ ExampleRun
    /\ Len(filtered_df) = 3
    /\ Cardinality({ filtered_df[i].Country : i \in AtYear(years[1]) }) = 2
    /\ growth_rate = I(-50)

\* a run over one year only
C3_WitnessSameYear ==
    /\ KpisDone
    /\ years[1] = years[2]
    /\ YearMin # YearMax
    /\ growth_rate = I(0)

\* C4: with a year range of two different years and U_start = 0, the growth
\* rate is produced as 0 and neither an infinity nor a NaN reaches the KPI
\* display or the growth insight rules.
C4_ZeroStartGivesZero ==
    (KpisDone /\ years[1] # years[2] /\ U_start = I(0)) =>
        /\ growth_rate = I(0)
        /\ usage_delta = None

Specials(x) == IsNaN(x) \/ IsInf(x)

\* C5: a ratio metric with a zero denominator is reported as unavailable and
\* is never an infinity or a NaN in the KPIs, the detail table or the export.
C5_NoInfNaNRatios ==
    /\ KpisDone => ~Specials(efficiency_score)
    /\ TableDone =>
          \A g \in Positions(display_df) :
              /\ ~Specials(display_df[g].Usage_per_Urban)
              /\ ~Specials(display_df[g].Satisfaction_Efficiency)
    /\ pc = "done" =>
          \A g \in Positions(csv) :
              /\ csv[g].Usage_per_Urban # Inf
              /\ csv[g].Satisfaction_Efficiency # Inf

\* C6 for one key set: the groups of an aggregate partition the filtered rows
Members(c1, c2, g) ==
    { i \in Positions(filtered_df) :
        filtered_df[i][c1] = g[c1] /\ filtered_df[i][c2] = g[c2] }

IsPartition(agg, c1, c2, usage) ==
    /\ \A i \in Positions(filtered_df) :
          Cardinality({ g \in Positions(agg) : i \in Members(c1, c2, agg[g]) }) = 1
    /\ \A g \in Positions(agg) : Members(c1, c2, agg[g]) # {}
    /\ Len(agg) = Cardinality({ <<filtered_df[i][c1], filtered_df[i][c2]>> :
                                  i \in Positions(filtered_df) })
    /\ \A g \in Positions(agg) :
          agg[g][usage] = SumAt(filtered_df, Members(c1, c2, agg[g]), "Annual_Usage")
    /\ SumAt(agg, Positions(agg), usage) = total_usage

RowScore(r) ==
    Add(Mul(I(20), r.Customer_Satisfaction_Score),
        Div(Sub(I(100), r.CO2_Emissions_kg_per_passenger), I(2)))

RECURSIVE ScoreSum(_)
ScoreSum(S) ==
    IF S = {} THEN I(0)
    ELSE LET i == CHOOSE j \in S : TRUE
         IN  Add(RowScore(filtered_df[i]), ScoreSum(S \ {i}))

\* C7: the ranking has one entry per (country, transport type) pair of the
\* filtered dataset, each pair once; an entry's score is the mean over its
\* rows of satisfaction * 20 + (100 - co2) * 0.5, unclamped; the scores do
\* not increase along the ranking.
C7_RankingTotalOrdered ==
    RankingDone =>
        /\ Len(top_performers)
             = Cardinality({ <<filtered_df[i].Country, filtered_df[i].Transport_Type>> :
                               i \in Positions(filtered_df) })
        /\ \A i \in Positions(filtered_df) :
              Cardinality({ g \in Positions(top_performers) :
                  i \in Members("Country", "Transport_Type", top_performers[g]) }) = 1
        /\ \A g \in Positions(top_performers) :
              LET m == Members("Country", "Transport_Type", top_performers[g])
              IN  /\ m # {}
                  /\ Mul(top_performers[g].Performance_Score, I(Cardinality(m)))
                       = ScoreSum(m)
        /\ \A g \in 1..Len(top_performers) - 1 :
              ~LT(top_performers[g].Performance_Score,
                  top_performers[g + 1].Performance_Score)

\* a ranking of several groups, one of them the mean of several rows, over
\* rows that include emissions above 100
C7_Witness ==
    /\ RankingDone
    /\ Len(top_performers) >= 2
    /\ Len(filtered_df) > Len(top_performers)
    /\ \E i \in Positions(filtered_df) :
          /\ GT(filtered_df[i].CO2_Emissions_kg_per_passenger, I(100))
          /\ Cardinality(Members("Country", "Transport_Type", filtered_df[i])) >= 2

GroupBefore(a, b) ==
    \/ StrOrd(a.Country) < StrOrd(b.Country)
    \/ a.Country = b.Country /\ StrOrd(a.Transport_Type) < StrOrd(b.Transport_Type)

\* C8: groups with equal scores are ranked in group-key order, and the top
\* performer among tied highest scores is the first of them in that order.
C8_StableRanking ==
    RankingDone =>
        \A g, h \in Positions(top_performers) :
            (g < h /\ top_performers[g].Performance_Score
                        = top_performers[h].Performance_Score)
                => GroupBefore(top_performers[g], top_performers[h])

Kinds == { insights[i].kind : i \in Positions(insights) }
Count(k) == Cardinality({ i \in Positions(insights) : insights[i].kind = k })

\* C9: the insights are the rule table's result: each threshold insight is
\* present iff its condition holds, at most one of each pair, and one
\* top-performer insight, last, names the transport type of the first entry
\* of the ranking; there are 1 to 4 insights.
C9_InsightRules ==
    InsightsDone =>
        /\ ("strong-growth" \in Kinds) <=> GT(growth_rate, I(10))
        /\ ("declining-usage" \in Kinds) <=> LT(growth_rate, I(-5))
        /\ ("high-satisfaction" \in Kinds) <=> GT(avg_satisfaction, I(4))
        /\ ("low-satisfaction" \in Kinds) <=> LT(avg_satisfaction, I(3))
        /\ ("eco-friendly" \in Kinds) <=> LT(avg_emissions, I(2))
        /\ ("high-emissions" \in Kinds) <=> GT(avg_emissions, I(5))
        /\ ~({"strong-growth", "declining-usage"} \subseteq Kinds)
        /\ ~({"high-satisfaction", "low-satisfaction"} \subseteq Kinds)
        /\ ~({"eco-friendly", "high-emissions"} \subseteq Kinds)
        /\ \A k \in Kinds : Count(k) = 1
        /\ Len(insights) \in 1..4
        /\ insights[Len(insights)].kind = "top-performer"
        /\ insights[Len(insights)].text = top_performers[1].Transport_Type
        /\ best_transport = top_performers[1].Transport_Type

\* four insights, and a satisfaction exactly on a threshold
C9_Witness ==
    /\ InsightsDone
    /\ Len(insights) = 4
    /\ Kinds = {"declining-usage", "high-satisfaction", "eco-friendly", "top-performer"}

C9_WitnessThreshold ==
    /\ InsightsDone
    /\ avg_satisfaction = I(3)
    /\ Len(insights) = 1

Unrounded(g, c) ==
    Div(SumAt(filtered_df, Members("Country", "Transport_Type", g), c),
        I(Cardinality(Members("Country", "Transport_Type", g))))

\* C10: the per-group ratios are the ratios of the unrounded aggregates:
\* usage_per_urban = total usage / mean urbanization and
\* satisfaction_efficiency = mean satisfaction / mean co2, at full precision.
C10_RatiosFullPrecision ==
    TableDone =>
        \A g \in Positions(display_df) :
            /\ display_df[g].Usage_per_Urban
                 = Div(SumAt(filtered_df,
                             Members("Country", "Transport_Type", display_df[g]),
                             "Annual_Usage"),
                       Unrounded(display_df[g], "Urbanization_Rate"))
            /\ display_df[g].Satisfaction_Efficiency
                 = Div(Unrounded(display_df[g], "Customer_Satisfaction_Score"),
                       Unrounded(display_df[g], "CO2_Emissions_kg_per_passenger"))

====
